---- MODULE Spec2Model ----
(***************************************************************************)
(* Model of app/dotfilehandler.py (Tuckr): the module-level configuration   *)
(* load and the four actions clone_dotfiles, install_packages, run_scripts  *)
(* and install_from_list.                                                   *)
(*                                                                          *)
(* Strings are sequences of one-character strings, so that substring        *)
(* search, split and replace are computed as Python computes them.          *)
(* A Configuration is a function from the names of the sections that are    *)
(* present to the section's entries, a sequence of <<key, value>> pairs in  *)
(* file order with pairwise distinct keys (configparser is strict).         *)
(* The configuration files of the model have no [DEFAULT] section and no    *)
(* value uses % interpolation.                                              *)
(***************************************************************************)
EXTENDS Naturals, Sequences, FiniteSets

VARIABLES
    cwdFile,    \* the file ./tuckr.conf: [kind, content]
    homeFile,   \* the file ~/.config/tuckr.conf: [kind, content]
    files,      \* the list files: path -> [exists, text]
    config,     \* the module-level ConfigParser object
    pc,         \* "start", "idle", "run_scripts", "install_from_list", "crashed"
    call,       \* the operation that ran last (or is running)
    err,        \* the exception that left the operation uncaught, or "none"
    idx,        \* position of the running for loop
    events      \* what the running/last operation did: prints and os.system calls

vars == <<cwdFile, homeFile, files, config, pc, call, err, idx, events>>

----------------------------------------------------------------------------
(* Bounds *)

MaxScripts == 2
MaxPkgKeys == 2

----------------------------------------------------------------------------
(* String literals of the source *)

GENERAL == "GENERAL"
PACKAGES == "PACKAGES"
SCRIPTS == "SCRIPTS"
SectionNames == {GENERAL, PACKAGES, SCRIPTS}

dotfiles_repo == <<"d","o","t","f","i","l","e","s","_","r","e","p","o">>
dotfiles_dest == <<"d","o","t","f","i","l","e","s","_","d","e","s","t">>
clone_dotfiles_cmd ==
    <<"c","l","o","n","e","_","d","o","t","f","i","l","e","s","_","c","m","d">>
pkg_install_cmd == <<"p","k","g","_","i","n","s","t","a","l","l","_","c","m","d">>
pkg_list == <<"p","k","g","_","l","i","s","t">>
pip == <<"p","i","p">>
npm == <<"n","p","m">>
yarn == <<"y","a","r","n">>
UnderscoreList == <<"_","l","i","s","t">>
GitClone == <<"g","i","t"," ","c","l","o","n","e"," ">>
HomeDotfiles == <<"$","H","O","M","E","/","d","o","t","f","i","l","e","s">>
ShC == <<"s","h"," ","-","c"," ">>
Space == <<" ">>

NoConfigNotice == "Error: No config file was found"
NoRepoNotice ==
    "Error: No dotfile repo was specified. Make sure you set it up in your tuckr.ini file."

\* install_cmd: the dictionary of install_from_list
install_cmd ==
    [t \in {pip, npm, yarn} |->
        IF t = pip THEN <<"i","n","s","t","a","l","l"," ","-","-","u","s","e","r">>
        ELSE IF t = npm THEN <<"i","n","s","t","a","l","l"," ","-","g">>
        ELSE <<"g","l","o","b","a","l"," ","a","d","d">>]

----------------------------------------------------------------------------
(* Python's str and configparser operations *)

\* sub in s
Contains(s, sub) ==
    \E i \in 1..(Len(s) + 1) :
        /\ i + Len(sub) - 1 <= Len(s)
        /\ SubSeq(s, i, i + Len(sub) - 1) = sub

\* s.split(c)[0]: the text before the first c, all of s when it has none
SplitFirst(s, c) ==
    IF \E i \in 1..Len(s) : s[i] = c
    THEN LET first == CHOOSE i \in 1..Len(s) :
                          /\ s[i] = c
                          /\ \A j \in 1..(i - 1) : s[j] # c
         IN SubSeq(s, 1, first - 1)
    ELSE s

\* a faulty replace that leaves a trailing old as it is
ReplaceBroken(s, old, new) ==
    [i \in 1..Len(s) |-> IF s[i] = old /\ i < Len(s) THEN new ELSE s[i]]

\* s.replace(old, new) for one-character old and new
Replace(s, old, new) ==
    [i \in 1..Len(s) |-> IF s[i] = old THEN new ELSE s[i]]

\* key in config[section] (the section is present)
HasKey(section, key) == \E i \in 1..Len(section) : section[i][1] = key

\* config[section][key] (the key is present)
Get(section, key) ==
    section[CHOOSE i \in 1..Len(section) : section[i][1] = key][2]

\* section in config
HasSection(cfg, name) == name \in DOMAIN cfg

EmptyConfig == [n \in {} |-> <<>>]

----------------------------------------------------------------------------
(* Events *)

PrintEvent(text, arg) == [op |-> "print", text |-> text, arg |-> arg, ret |-> 0]
SystemEvent(cmd, ret) == [op |-> "system", text |-> "", arg |-> cmd, ret |-> ret]

ExitStatuses == {0, 1}

Spawned == SelectSeq(events, LAMBDA e : e.op = "system")
Printed == SelectSeq(events, LAMBDA e : e.op = "print")

----------------------------------------------------------------------------
(* The files the program finds: the inputs of a run *)

RepoValue == <<"r">>
DestValue == <<"d">>
CloneCmdValue == <<"c">>
InstallCmdValue == <<"i">>
A_txt == <<"a",".","t","x","t">>
B_txt == <<"b",".","t","x","t">>
Paths == {A_txt, B_txt}
Missing == [exists |-> FALSE, text |-> <<>>]
TextFile(t) == [exists |-> TRUE, text |-> t]

\* a.txt is "x\ny\n"; b.txt is "a\nb\n" or does not exist
FileSystems ==
    {[p \in Paths |-> IF p = A_txt THEN TextFile(<<"x","\n","y","\n">>) ELSE b] :
        b \in {Missing, TextFile(<<"a","\n","b","\n">>)}}

\* sequences of at most n elements of pool, no key (first component) twice
DistinctKeySeqs(pool, n) ==
    UNION {{s \in [1..k -> pool] :
               \A i, j \in 1..k : s[i][1] = s[j][1] => i = j} : k \in 0..n}

GeneralPool ==
    <<<<dotfiles_repo, RepoValue>>, <<dotfiles_dest, DestValue>>,
      <<clone_dotfiles_cmd, CloneCmdValue>>>>
GeneralSections ==
    {SelectSeq(GeneralPool, LAMBDA e : e[1] \in S) :
        S \in SUBSET {dotfiles_repo, dotfiles_dest, clone_dotfiles_cmd}}

ListKeys ==
    {pkg_list, pip \o UnderscoreList, npm \o UnderscoreList, yarn \o UnderscoreList,
     <<"f","o","o">> \o UnderscoreList}
PackagesPool ==
    {<<pkg_install_cmd, InstallCmdValue>>} \cup {<<k, p>> : k \in ListKeys, p \in Paths}
PackagesSections == DistinctKeySeqs(PackagesPool, MaxPkgKeys)

ScriptsPool ==
    {<<<<"u","p">>, <<"t","r","u","e">>>>, <<<<"r","m">>, <<"f","a","l","s","e">>>>,
     <<<<"l","s">>, <<"l","s">>>>}
ScriptsSections == DistinctKeySeqs(ScriptsPool, MaxScripts)

\* the configuration with the given sections; an empty set: the section is absent
MakeConfig(G, P, S) ==
    LET of(n) == IF n = GENERAL THEN G ELSE IF n = PACKAGES THEN P ELSE S
    IN [n \in {x \in SectionNames : of(x) # {}} |-> CHOOSE e \in of(n) : TRUE]

BaseGeneral == {<<<<dotfiles_repo, RepoValue>>>>}
BasePackages == {<<<<pkg_install_cmd, InstallCmdValue>>, <<pkg_list, A_txt>>>>}
BaseScripts == {<<<<<<"u","p">>, <<"t","r","u","e">>>>>>}

\* one section ranges over its contents (or is absent), the two others are
\* both absent or both as in the base configuration
Configs ==
    UNION {
        {MakeConfig(G, {}, {}), MakeConfig(G, BasePackages, BaseScripts)} :
            G \in {{}} \cup {{g} : g \in GeneralSections}}
    \cup UNION {
        {MakeConfig({}, P, {}), MakeConfig(BaseGeneral, P, BaseScripts)} :
            P \in {{}} \cup {{p} : p \in PackagesSections}}
    \cup UNION {
        {MakeConfig({}, {}, S), MakeConfig(BaseGeneral, BasePackages, S)} :
            S \in {{}} \cup {{s} : s \in ScriptsSections}}

HomeConfig == MakeConfig({<<<<clone_dotfiles_cmd, CloneCmdValue>>>>}, {}, {})

Absent == [kind |-> "absent", content |-> EmptyConfig]
Parses(c) == [kind |-> "ok", content |-> c]
\* a file with a parse error; content: the sections read before the error
Malformed(c) == [kind |-> "malformed", content |-> c]

CwdFiles ==
    {Absent, Malformed(EmptyConfig), Malformed(MakeConfig({}, {}, BaseScripts))}
    \cup {Parses(c) : c \in Configs}
HomeFiles == {Absent, Malformed(EmptyConfig), Parses(HomeConfig)}

----------------------------------------------------------------------------
(* Module level: config = ConfigParser(); try: try: read ... *)

\* dict.update of a section's entries: known keys keep their place
MergeEntries(old, new) ==
    [i \in 1..Len(old) |->
        IF HasKey(new, old[i][1]) THEN <<old[i][1], Get(new, old[i][1])>> ELSE old[i]]
    \o SelectSeq(new, LAMBDA e : ~HasKey(old, e[1]))

MergeConfig(cfg, content) ==
    [n \in DOMAIN cfg \cup DOMAIN content |->
        IF n \notin DOMAIN content THEN cfg[n]
        ELSE IF n \notin DOMAIN cfg THEN content[n]
        ELSE MergeEntries(cfg[n], content[n])]

\* config.read(file): a file that cannot be opened is skipped without an
\* error; a parse error is raised, with the sections read so far kept
ConfigRead(cfg, file) ==
    IF file.kind = "absent" THEN [config |-> cfg, raised |-> "none"]
    ELSE IF file.kind = "ok"
    THEN [config |-> MergeConfig(cfg, file.content), raised |-> "none"]
    ELSE [config |-> MergeConfig(cfg, file.content), raised |-> "configparser.Error"]

\* Path.expanduser('~/.config/tuckr.conf'): the method is called on the class
\* with a str as self, and reading the path attributes of a str raises
ExpandUser(path) == [raised |-> "AttributeError", value |-> path]

HomeConfPath == "~/.config/tuckr.conf"

LoadResult(cwd, home) ==
    LET first == ConfigRead(EmptyConfig, cwd)
        inner ==
            IF first.raised = "none" THEN first
            ELSE LET p == ExpandUser(HomeConfPath)
                 IN IF p.raised # "none"
                    THEN [config |-> first.config, raised |-> p.raised]
                    ELSE ConfigRead(first.config, home)
    IN IF inner.raised = "KeyError"
       THEN [config |-> inner.config, raised |-> "none",
             events |-> <<PrintEvent(NoConfigNotice, <<>>)>>]
       ELSE [config |-> inner.config, raised |-> inner.raised, events |-> <<>>]

Init ==
    /\ cwdFile \in CwdFiles
    /\ homeFile \in HomeFiles
    /\ files \in FileSystems
    /\ config = EmptyConfig
    /\ pc = "start"
    /\ call = "none"
    /\ err = "none"
    /\ idx = 0
    /\ events = <<>>

load_config ==
    /\ pc = "start"
    /\ LET r == LoadResult(cwdFile, homeFile)
       IN /\ config' = r.config
          /\ events' = r.events
          /\ err' = r.raised
          /\ pc' = IF r.raised = "none" THEN "idle" ELSE "crashed"
    /\ call' = "load_config"
    /\ UNCHANGED <<cwdFile, homeFile, files, idx>>

----------------------------------------------------------------------------
(* clone_dotfiles *)

\* a faulty clone_dotfiles that prefers clone_dotfiles_cmd to dotfiles_repo
clone_dotfiles_cmd_first(cfg, ret) ==
    IF ~HasSection(cfg, GENERAL) THEN <<PrintEvent(NoRepoNotice, <<>>)>>
    ELSE LET g == cfg[GENERAL]
         IN IF HasKey(g, clone_dotfiles_cmd)
            THEN <<SystemEvent(Get(g, clone_dotfiles_cmd), ret)>>
            ELSE IF HasKey(g, dotfiles_repo)
            THEN IF HasKey(g, dotfiles_dest)
                 THEN <<SystemEvent(GitClone \o Get(g, dotfiles_repo) \o Space
                                    \o Get(g, dotfiles_dest), ret)>>
                 ELSE <<SystemEvent(GitClone \o Get(g, dotfiles_repo) \o Space
                                    \o HomeDotfiles, ret)>>
            ELSE <<PrintEvent(NoRepoNotice, <<>>)>>

\* what clone_dotfiles does; every KeyError of the body is caught and reported
clone_dotfiles_events(cfg, ret) ==
    IF ~HasSection(cfg, GENERAL) THEN <<PrintEvent(NoRepoNotice, <<>>)>>
    ELSE LET g == cfg[GENERAL]
         IN IF HasKey(g, dotfiles_repo)
            THEN IF HasKey(g, dotfiles_dest)
                 THEN <<SystemEvent(GitClone \o Get(g, dotfiles_repo) \o Space
                                    \o Get(g, dotfiles_dest), ret)>>
                 ELSE <<SystemEvent(GitClone \o Get(g, dotfiles_repo) \o Space
                                    \o HomeDotfiles, ret)>>
            ELSE IF HasKey(g, clone_dotfiles_cmd)
            THEN <<SystemEvent(Get(g, clone_dotfiles_cmd), ret)>>
            ELSE <<PrintEvent(NoRepoNotice, <<>>)>>

clone_dotfiles ==
    /\ pc = "idle"
    /\ \E ret \in ExitStatuses : events' = clone_dotfiles_events(config, ret)
    /\ call' = "clone_dotfiles"
    /\ err' = "none"
    /\ pc' = "idle"
    /\ UNCHANGED <<cwdFile, homeFile, files, config, idx>>

----------------------------------------------------------------------------
(* install_packages *)

Raised(e) == [events |-> <<>>, raised |-> e]

\* what install_packages does: nothing in its body is caught
install_packages_result(cfg, fs, ret) ==
    IF ~HasSection(cfg, PACKAGES) THEN Raised("KeyError")
    ELSE LET p == cfg[PACKAGES]
         IN IF HasKey(p, pkg_install_cmd)
            THEN IF ~HasKey(p, pkg_list) THEN Raised("KeyError")
                 ELSE IF ~fs[Get(p, pkg_list)].exists THEN Raised("FileNotFoundError")
                 ELSE LET pkgs == Replace(fs[Get(p, pkg_list)].text, "\n", " ")
                      IN [events |-> <<SystemEvent(Get(p, pkg_install_cmd) \o Space
                                                   \o pkgs, ret)>>,
                          raised |-> "none"]
            ELSE [events |-> <<>>, raised |-> "none"]

install_packages ==
    /\ pc = "idle"
    /\ \E ret \in ExitStatuses :
         LET r == install_packages_result(config, files, ret)
         IN /\ events' = r.events
            /\ err' = r.raised
            /\ pc' = IF r.raised = "none" THEN "idle" ELSE "crashed"
    /\ call' = "install_packages"
    /\ UNCHANGED <<cwdFile, homeFile, files, config, idx>>

----------------------------------------------------------------------------
(* run_scripts *)

\* evaluating config['SCRIPTS'] and entering the for loop
run_scripts ==
    /\ pc = "idle"
    /\ call' = "run_scripts"
    /\ events' = <<>>
    /\ IF HasSection(config, SCRIPTS)
       THEN /\ pc' = "run_scripts"
            /\ err' = "none"
            /\ idx' = 1
       ELSE /\ pc' = "crashed"
            /\ err' = "KeyError"
            /\ idx' = idx
    /\ UNCHANGED <<cwdFile, homeFile, files, config>>

\* a faulty loop that stops at the first script that fails
run_scripts_iter_stop_on_failure ==
    /\ pc = "run_scripts"
    /\ LET s == config[SCRIPTS]
       IN IF idx > Len(s) \/ (events # <<>> /\ events[Len(events)].ret # 0)
          THEN /\ pc' = "idle"
               /\ UNCHANGED <<idx, events>>
          ELSE /\ \E ret \in ExitStatuses :
                    events' = events \o <<PrintEvent("running", s[idx][1]),
                                          SystemEvent(ShC \o s[idx][2], ret)>>
               /\ idx' = idx + 1
               /\ pc' = "run_scripts"
    /\ UNCHANGED <<cwdFile, homeFile, files, config, call, err>>

\* one iteration of the for loop, or its end; the value os.system returns
\* is dropped
run_scripts_iter ==
    /\ pc = "run_scripts"
    /\ LET s == config[SCRIPTS]
       IN IF idx > Len(s)
          THEN /\ pc' = "idle"
               /\ UNCHANGED <<idx, events>>
          ELSE /\ \E ret \in ExitStatuses :
                    events' = events \o <<PrintEvent("running", s[idx][1]),
                                          SystemEvent(ShC \o s[idx][2], ret)>>
               /\ idx' = idx + 1
               /\ pc' = "run_scripts"
    /\ UNCHANGED <<cwdFile, homeFile, files, config, call, err>>

----------------------------------------------------------------------------
(* install_from_list *)

\* evaluating config['PACKAGES'] and entering the for loop
install_from_list ==
    /\ pc = "idle"
    /\ call' = "install_from_list"
    /\ events' = <<>>
    /\ IF HasSection(config, PACKAGES)
       THEN /\ pc' = "install_from_list"
            /\ err' = "none"
            /\ idx' = 1
       ELSE /\ pc' = "crashed"
            /\ err' = "KeyError"
            /\ idx' = idx
    /\ UNCHANGED <<cwdFile, homeFile, files, config>>

\* the body of the loop for the key list_: open() comes first and its
\* FileNotFoundError is no KeyError; install_cmd[cmd] raises the KeyError
\* that is caught
install_from_list_body(list_, path, fs, ret) ==
    IF Contains(list_, UnderscoreList)
    THEN LET cmd == SplitFirst(list_, "_")
         IN IF ~fs[path].exists THEN Raised("FileNotFoundError")
            ELSE LET list_file == Replace(fs[path].text, "\n", " ")
                 IN IF cmd \in DOMAIN install_cmd
                    THEN [events |-> <<SystemEvent(cmd \o Space \o install_cmd[cmd]
                                                   \o Space \o list_file, ret)>>,
                          raised |-> "none"]
                    ELSE [events |-> <<>>, raised |-> "none"]
    ELSE [events |-> <<>>, raised |-> "none"]

\* one iteration of the for loop, or its end
install_from_list_iter ==
    /\ pc = "install_from_list"
    /\ LET p == config[PACKAGES]
       IN IF idx > Len(p)
          THEN /\ pc' = "idle"
               /\ UNCHANGED <<idx, events, err>>
          ELSE \E ret \in ExitStatuses :
                 LET r == install_from_list_body(p[idx][1], p[idx][2], files, ret)
                 IN /\ events' = events \o r.events
                    /\ err' = r.raised
                    /\ pc' = IF r.raised = "none" THEN "install_from_list" ELSE "crashed"
                    /\ idx' = idx + 1
    /\ UNCHANGED <<cwdFile, homeFile, files, config, call>>

----------------------------------------------------------------------------

Next ==
    \/ load_config
    \/ clone_dotfiles
    \/ install_packages
    \/ run_scripts
    \/ run_scripts_iter
    \/ install_from_list
    \/ install_from_list_iter

Spec == Init /\ [][Next]_vars

----------------------------------------------------------------------------
(* Claims *)

Value(section, key) == IF HasKey(section, key) THEN Get(section, key) ELSE <<>>

\* the events are exactly one os.system call of cmd
OneSpawn(cmd) ==
    /\ Len(events) = 1
    /\ events[1].op = "system"
    /\ events[1].arg = cmd

\* the text with every newline replaced by one space
IsCollapsed(tokens, text) ==
    /\ Len(tokens) = Len(text)
    /\ \A i \in 1..Len(text) :
          tokens[i] = (IF text[i] = "\n" THEN " " ELSE text[i])

\* C1: with a SCRIPTS section [s1, ..., sn], run_scripts prints the notice
\* naming si and then spawns "sh -c <si's command>", for i = 1..n in file
\* order, whatever the earlier scripts returned; it returns after exactly n
\* spawns and raises nothing.
C1_RunScriptsInOrder ==
    (call = "run_scripts" /\ HasSection(config, SCRIPTS)) =>
        LET s == config[SCRIPTS]
            n == IF pc = "run_scripts" THEN idx - 1 ELSE Len(s)
        IN /\ pc \in {"run_scripts", "idle"}
           /\ err = "none"
           /\ n <= Len(s)
           /\ Len(events) = 2 * n
           /\ \A i \in 1..n :
                 /\ events[2 * i - 1] = PrintEvent("running", s[i][1])
                 /\ events[2 * i].op = "system"
                 /\ events[2 * i].arg = ShC \o s[i][2]

\* run_scripts has returned from a section of two scripts, the first of which
\* failed
C1_Witness ==
    /\ call = "run_scripts"
    /\ pc = "idle"
    /\ HasSection(config, SCRIPTS)
    /\ Len(config[SCRIPTS]) >= 2
    /\ Len(events) = 2 * Len(config[SCRIPTS])
    /\ events[2].ret # 0

\* C2: clone_dotfiles spawns exactly one process, "git clone <repo> <dest>",
\* when dotfiles_repo and dotfiles_dest are set; exactly one,
\* "git clone <repo> $HOME/dotfiles", when only dotfiles_repo is; exactly the
\* string clone_dotfiles_cmd when dotfiles_repo is absent and it is set; and
\* otherwise (GENERAL absent included) no process and exactly one error notice.
C2_CloneDecisionOrder ==
    call = "clone_dotfiles" =>
        /\ pc = "idle"
        /\ err = "none"
        /\ LET present == HasSection(config, GENERAL)
               g == IF present THEN config[GENERAL] ELSE <<>>
               repo == HasKey(g, dotfiles_repo)
               dest == HasKey(g, dotfiles_dest)
               cmd == HasKey(g, clone_dotfiles_cmd)
           IN /\ (repo /\ dest) =>
                    OneSpawn(GitClone \o Value(g, dotfiles_repo) \o Space
                             \o Value(g, dotfiles_dest))
              /\ (repo /\ ~dest) =>
                    OneSpawn(GitClone \o Value(g, dotfiles_repo) \o Space
                             \o HomeDotfiles)
              /\ (~repo /\ cmd) => OneSpawn(Value(g, clone_dotfiles_cmd))
              /\ (~repo /\ ~cmd) =>
                    /\ Spawned = <<>>
                    /\ Printed = <<PrintEvent(NoRepoNotice, <<>>)>>

\* clone_dotfiles has run with dotfiles_repo and clone_dotfiles_cmd both set
\* and no dotfiles_dest
C2_Witness ==
    /\ call = "clone_dotfiles"
    /\ HasSection(config, GENERAL)
    /\ HasKey(config[GENERAL], dotfiles_repo)
    /\ HasKey(config[GENERAL], clone_dotfiles_cmd)
    /\ ~HasKey(config[GENERAL], dotfiles_dest)
    /\ Len(Spawned) = 1

\* C10: install_packages with pkg_install_cmd and pkg_list set: when the
\* pkg_list file does not exist it ends in an uncaught FileNotFoundError and
\* has spawned nothing; when it exists it spawns exactly one process,
\* "<pkg_install_cmd> <tokens>", tokens being the file's text with every
\* newline replaced by one space.
C10_InstallPackages ==
    (/\ call = "install_packages"
     /\ HasSection(config, PACKAGES)
     /\ HasKey(config[PACKAGES], pkg_install_cmd)
     /\ HasKey(config[PACKAGES], pkg_list)) =>
        LET p == config[PACKAGES]
            file == files[Get(p, pkg_list)]
            prefix == Get(p, pkg_install_cmd) \o Space
        IN IF ~file.exists
           THEN /\ pc = "crashed"
                /\ err = "FileNotFoundError"
                /\ events = <<>>
           ELSE /\ pc = "idle"
                /\ err = "none"
                /\ Len(events) = 1
                /\ events[1].op = "system"
                /\ SubSeq(events[1].arg, 1, Len(prefix)) = prefix
                /\ IsCollapsed(SubSeq(events[1].arg, Len(prefix) + 1,
                                      Len(events[1].arg)), file.text)

\* install_packages has run on the list file "a\nb\n" and spawned "i a b "
C10_Witness ==
    /\ call = "install_packages"
    /\ pc = "idle"
    /\ HasSection(config, PACKAGES)
    /\ HasKey(config[PACKAGES], pkg_list)
    /\ files[Get(config[PACKAGES], pkg_list)] = TextFile(<<"a","\n","b","\n">>)
    /\ OneSpawn(<<"i"," ","a"," ","b"," ">>)

\* C4: with no file at ./tuckr.conf and none at ~/.config/tuckr.conf, loading
\* raises nothing, leaves the Configuration with zero sections and prints
\* exactly one notice, "No config file was found".
C4_NoFileNotice ==
    (/\ call = "load_config"
     /\ cwdFile.kind = "absent"
     /\ homeFile.kind = "absent") =>
        /\ pc = "idle"
        /\ err = "none"
        /\ DOMAIN config = {}
        /\ events = <<PrintEvent(NoConfigNotice, <<>>)>>

\* C5: after loading, when ./tuckr.conf is absent or unparseable and
\* ~/.config/tuckr.conf parses, the Configuration is the content of the
\* home-directory file; when ./tuckr.conf parses, the Configuration is its
\* content.
C5_SearchOrder ==
    call = "load_config" =>
        /\ (cwdFile.kind # "ok" /\ homeFile.kind = "ok") =>
              (pc = "idle" /\ config = homeFile.content)
        /\ cwdFile.kind = "ok" => (pc = "idle" /\ config = cwdFile.content)

\* C6: with a malformed file at ./tuckr.conf, loading raises nothing past the
\* loader and the Configuration afterwards is empty.
C6_MalformedIsContained ==
    (call = "load_config" /\ cwdFile.kind = "malformed") =>
        /\ pc = "idle"
        /\ err = "none"
        /\ DOMAIN config = {}

\* the command install_from_list builds for a key of a known tool
InstallCommand(key, text) ==
    LET tool == SplitFirst(key, "_")
    IN tool \o Space \o install_cmd[tool] \o Space \o Replace(text, "\n", " ")

IsListKey(key) == Contains(key, UnderscoreList)
KnownTool(key) == SplitFirst(key, "_") \in {pip, npm, yarn}
SpawnedFor(key, text) ==
    \E j \in 1..Len(Spawned) : Spawned[j].arg = InstallCommand(key, text)

\* C7: in install_from_list a list file that cannot be read makes no error
\* surface, and every _list key of a known tool whose file can be read has
\* its install command spawned once the action has ended, also when it
\* comes after a key whose file is missing.
C7_PerKeyIsolation ==
    (call = "install_from_list" /\ HasSection(config, PACKAGES)) =>
        /\ err = "none"
        /\ pc \in {"install_from_list", "idle"}
        /\ pc = "idle" =>
              \A i \in 1..Len(config[PACKAGES]) :
                 LET key == config[PACKAGES][i][1]
                     file == files[config[PACKAGES][i][2]]
                 IN (IsListKey(key) /\ KnownTool(key) /\ file.exists) =>
                        SpawnedFor(key, file.text)

\* C3: once install_from_list has ended on a PACKAGES section, a _list key
\* (with a readable list file) has had a process spawned for it if and only
\* if the text before its first "_" is pip, npm or yarn, the command being
\* "<tool> <subcommand> <tokens>"; nothing is spawned for foo_list or
\* pkg_list.
C3_SpawnIffKnownTool ==
    (/\ call = "install_from_list"
     /\ pc \in {"idle", "crashed"}
     /\ HasSection(config, PACKAGES)) =>
        /\ \A i \in 1..Len(config[PACKAGES]) :
              LET key == config[PACKAGES][i][1]
                  file == files[config[PACKAGES][i][2]]
              IN (IsListKey(key) /\ file.exists) =>
                     (KnownTool(key) <=> SpawnedFor(key, file.text))
        /\ Len(Spawned) =
              Cardinality({i \in 1..Len(config[PACKAGES]) :
                              /\ IsListKey(config[PACKAGES][i][1])
                              /\ KnownTool(config[PACKAGES][i][1])
                              /\ files[config[PACKAGES][i][2]].exists})

\* C8: without pkg_install_cmd (the key is absent from PACKAGES, or the
\* PACKAGES section is absent) install_packages spawns nothing, prints
\* nothing and raises nothing.
C8_SilentNoOp ==
    (/\ call = "install_packages"
     /\ \/ ~HasSection(config, PACKAGES)
        \/ ~HasKey(config[PACKAGES], pkg_install_cmd)) =>
        /\ pc = "idle"
        /\ err = "none"
        /\ events = <<>>

\* C9: without a SCRIPTS section run_scripts spawns nothing, prints nothing
\* and raises nothing.
C9_NoScriptsSection ==
    (call = "run_scripts" /\ ~HasSection(config, SCRIPTS)) =>
        /\ pc = "idle"
        /\ err = "none"
        /\ events = <<>>

====
